---- MODULE Spec2Model ----
(***************************************************************************)
(* A model of `why` (koizuka/why): command-to-path resolution, the symlink *)
(* chain walker, the priority-ordered detector registry and the detection  *)
(* orchestrator.                                                           *)
(*                                                                         *)
(* A path is the sequence of its components, as std::path::Path compares   *)
(* and hashes it: an absolute Unix path starts with the root component     *)
(* "/", a Windows path with the drive "C:", a relative path with a name or *)
(* "..", and the empty path is << >>.  An Option is a sequence of length   *)
(* at most one: None is << >> and Some(x) is << x >>.                      *)
(***************************************************************************)
EXTENDS Naturals, Sequences, FiniteSets, TLC

VARIABLES
    entry,        \* the public function that was called
    target,       \* target_os of the build
    fs,           \* the filesystem: node at every slot
    command,      \* the command name given by the caller
    prio,         \* priority() of every detector
    detectors,    \* PackageManagerRegistry.detectors
    pc,           \* position in the code
    command_path, \* Option: the path resolve_command returned
    path,         \* Option: the argument of follow_symlinks
    chain,        \* follow_symlinks: chain
    current,      \* follow_symlinks: current
    seen,         \* follow_symlinks: seen
    ctx,          \* Option: the DetectionContext
    idx,          \* PackageManagerRegistry::detect: index of the detector in turn
    dpkg,         \* what the dpkg tools answered when the apt detector asked
    log,          \* the detector methods invoked so far, in order
    ret           \* Option: the value returned

vars == << entry, target, fs, command, prio, detectors, pc, command_path,
           path, chain, current, seen, ctx, idx, dpkg, log, ret >>

None == << >>
Some(x) == << x >>

(***************************************************************************)
(* Bounds.                                                                 *)
(***************************************************************************)
\* Longest path, in components, the operating system accepts (PATH_MAX).
PathMax == 9
\* Symlinks the operating system follows in one path resolution (ELOOP).
SymloopMax == 4

(***************************************************************************)
(* Paths.                                                                  *)
(***************************************************************************)
Last(s) == s[Len(s)]
Front(s) == SubSeq(s, 1, Len(s) - 1)

\* Path::is_absolute
IsAbsolute(p) == p # << >> /\ p[1] \in {"/", "C:"}

\* Path::parent: None for the empty path and for a bare root.
Parent(p) ==
    IF p = << >> \/ (Len(p) = 1 /\ IsAbsolute(p)) THEN None ELSE Some(Front(p))

\* Path::join: an absolute argument replaces the receiver.
Join(p, t) == IF IsAbsolute(t) THEN t ELSE p \o t

(***************************************************************************)
(* The filesystem.  Every proper prefix of a slot is a directory; a slot   *)
(* holds nothing, an executable file or a symlink with its target as       *)
(* written; every other path does not exist.                               *)
(***************************************************************************)
HomeBin == << "/", "home", "u", "bin", "git" >>
BrewBin == << "/", "opt", "homebrew", "bin", "git" >>
UsrBin == << "/", "usr", "bin", "git" >>
Cellar == << "/", "opt", "homebrew", "Cellar", "git", "2.51.2", "bin", "git" >>
HomeTool == << "/", "home", "u", "tool" >>

Slots == { HomeBin, BrewBin, UsrBin, Cellar, HomeTool }

Absent == [kind |-> "none", target |-> << >>]
File == [kind |-> "file", target |-> << >>]
Link(t) == [kind |-> "link", target |-> t]

LinkTargets ==
    { BrewBin, UsrBin, HomeTool,
      << "git" >>,
      << "..", "bin", "git" >>,
      << "..", "Cellar", "git", "2.51.2", "bin", "git" >> }

\* The directories of PATH hold anything; the store entry and the tool are
\* files or missing.
NodesAt(s) ==
    IF s \in { Cellar, HomeTool } THEN { Absent, File }
    ELSE { Absent, File } \cup { Link(t) : t \in LinkTargets }

Filesystems == { f \in [Slots -> UNION { NodesAt(s) : s \in Slots }] :
                    \A s \in Slots : f[s] \in NodesAt(s) }

IsDir(p) == \E s \in Slots : Len(p) < Len(s) /\ SubSeq(s, 1, Len(p)) = p

\* The working directory of the process, for relative paths.
Cwd == << "/", "usr", "bin" >>

Ok(p) == [ok |-> TRUE, path |-> p]
Err == [ok |-> FALSE, path |-> << >>]

\* Path resolution as the operating system does it (realpath): `dir` is the
\* directory resolved so far, `rest` the components still to resolve, `hops`
\* the symlinks followed.  Fails on a missing component, on a file used as a
\* directory and after SymloopMax symlinks.
RECURSIVE Walk(_, _, _, _)
Walk(f, dir, rest, hops) ==
    IF rest = << >> THEN Ok(dir)
    ELSE LET c == Head(rest)
             more == Tail(rest)
         IN  IF c = "/" THEN Walk(f, << "/" >>, more, hops)
             ELSE IF c = ".." THEN
                 Walk(f, IF Len(dir) > 1 THEN Front(dir) ELSE dir, more, hops)
             ELSE LET q == dir \o << c >>
                  IN  IF q \in Slots THEN
                          CASE f[q].kind = "none" -> Err
                            [] f[q].kind = "file" ->
                                 IF more = << >> THEN Ok(q) ELSE Err
                            [] f[q].kind = "link" ->
                                 IF hops >= SymloopMax THEN Err
                                 ELSE Walk(f, dir, f[q].target \o more, hops + 1)
                      ELSE IF IsDir(q) THEN Walk(f, q, more, hops)
                      ELSE Err

\* Path::canonicalize
Canonicalize(f, p) ==
    IF p = << >> \/ Len(p) > PathMax THEN Err
    ELSE Walk(f, Cwd, p, 0)

\* fs::read_link: the target as written when the last component names a
\* symlink, after resolving the directory part; an error otherwise.
ReadLink(f, p) ==
    IF p = << >> \/ Len(p) > PathMax \/ Last(p) \in {"/", ".."} THEN Err
    ELSE LET d == Walk(f, Cwd, Front(p), 0)
         IN  IF ~d.ok \/ ~IsDir(d.path) THEN Err
             ELSE LET q == d.path \o << Last(p) >>
                  IN  IF q \in Slots /\ f[q].kind = "link"
                      THEN Ok(f[q].target) ELSE Err

(***************************************************************************)
(* Path strings.  Every pattern the detectors look for is delimited by     *)
(* separators on both sides, so a match is a run of whole components,      *)
(* preceded by a separator and followed by one more component.             *)
(***************************************************************************)
\* The separator Path::to_string_lossy shows between the components.
Sep(p) == IF p # << >> /\ p[1] = "C:" THEN "\\" ELSE "/"

\* Where sep + segs[1] + sep + ... + segs[n] + sep occurs in the string.
Occurrences(p, sep, segs) ==
    IF Sep(p) # sep THEN {}
    ELSE { k \in 2..Len(p) :
             /\ k + Len(segs) - 1 < Len(p)
             /\ SubSeq(p, k, k + Len(segs) - 1) = segs }

\* str::contains
Contains(p, sep, segs) == Occurrences(p, sep, segs) # {}

\* str::starts_with, for a pattern "/a/b/".
StartsWith(p, segs) ==
    /\ Len(p) > Len(segs) + 1
    /\ p[1] = "/"
    /\ SubSeq(p, 2, Len(segs) + 1) = segs

Min(S) == CHOOSE x \in S : \A y \in S : x <= y

(***************************************************************************)
(* Platform, DetectionContext, DetectionResult                             *)
(***************************************************************************)
Platforms == { "MacOS", "Linux", "Windows" }

\* Platform::current
PlatformCurrent(tgt) ==
    CASE tgt = "macos" -> "MacOS"
      [] tgt = "linux" -> "Linux"
      [] tgt = "windows" -> "Windows"
      [] OTHER -> "Linux"

DetectionContext(name, cpath, ch, rpath, plat) ==
    [ command_name |-> name, command_path |-> cpath, symlink_chain |-> ch,
      resolved_path |-> rpath, platform |-> plat ]

\* A result that reports the resolved path as the command path too.
DetectionResultResolvedOnly(id, name, pkg, ver, conf, c) ==
    [ manager_id |-> id, manager_name |-> name, package_name |-> pkg,
      version |-> ver, confidence |-> conf,
      command_path |-> c.resolved_path, resolved_path |-> c.resolved_path ]

DetectionResult(id, name, pkg, ver, conf, c) ==
    [ manager_id |-> id, manager_name |-> name, package_name |-> pkg,
      version |-> ver, confidence |-> conf,
      command_path |-> c.command_path, resolved_path |-> c.resolved_path ]

(***************************************************************************)
(* The detectors the registry holds.                                       *)
(***************************************************************************)
Id(d) ==
    CASE d = "HomebrewDetector" -> "homebrew"
      [] d = "NpmGlobalDetector" -> "npm_global"
      [] d = "BunGlobalDetector" -> "bun_global"
      [] d = "SystemDetector" -> "system"
      [] d = "AptDetector" -> "apt"
      [] d = "ChocolateyDetector" -> "chocolatey"
      [] d = "YarnGlobalDetector" -> "yarn_global"
      [] d = "PnpmGlobalDetector" -> "pnpm_global"
      [] d = "CargoDetector" -> "cargo"
      [] d = "GemDetector" -> "gem"
      [] d = "GoDetector" -> "go"
      [] d = "MiseDetector" -> "mise"
      [] d = "NDetector" -> "n"
      [] d = "NixDetector" -> "nix"
      [] d = "PipxDetector" -> "pipx"
      [] d = "SnapDetector" -> "snap"
      [] d = "ScoopDetector" -> "scoop"
      [] d = "WingetDetector" -> "winget"

Name(d) ==
    CASE d = "HomebrewDetector" -> "Homebrew"
      [] d = "NpmGlobalDetector" -> "npm (global)"
      [] d = "BunGlobalDetector" -> "bun (global)"
      [] d = "SystemDetector" -> "System (OS Standard)"
      [] d = "AptDetector" -> "apt"
      [] d = "ChocolateyDetector" -> "Chocolatey"
      [] d = "YarnGlobalDetector" -> "yarn (global)"
      [] d = "PnpmGlobalDetector" -> "pnpm (global)"
      [] d = "SnapDetector" -> "Snap"
      [] d = "MiseDetector" -> "mise"
      [] d = "PipxDetector" -> "pipx"
      [] d = "NixDetector" -> "Nix"
      [] d = "NDetector" -> "n (Node version manager)"

SupportsPlatform(d, plat) ==
    CASE d = "HomebrewDetector" -> plat \in { "MacOS", "Linux" }
      [] d = "NpmGlobalDetector" -> TRUE
      [] d = "BunGlobalDetector" -> TRUE
      [] d = "SystemDetector" -> TRUE
      [] d = "AptDetector" -> plat = "Linux"
      [] d = "ChocolateyDetector" -> plat = "Windows"
      [] d \in { "YarnGlobalDetector", "PnpmGlobalDetector", "CargoDetector",
                 "GemDetector", "GoDetector", "MiseDetector", "PipxDetector" } -> TRUE
      [] d \in { "NDetector", "NixDetector" } -> plat \in { "MacOS", "Linux" }
      [] d = "SnapDetector" -> plat = "Linux"
      [] d \in { "ScoopDetector", "WingetDetector" } -> plat = "Windows"

\* Priorities with those of the bun and the npm detector exchanged.
PriorityNpmOverBun(d) ==
    CASE d = "HomebrewDetector" -> 100
      [] d = "NpmGlobalDetector" -> 95
      [] d = "BunGlobalDetector" -> 90
      [] d = "SystemDetector" -> 10
      [] d = "AptDetector" -> 50
      [] d = "ChocolateyDetector" -> 80

Priority(d) ==
    CASE d = "HomebrewDetector" -> 100
      [] d = "NpmGlobalDetector" -> 90
      [] d = "BunGlobalDetector" -> 95
      [] d = "SystemDetector" -> 10
      [] d = "AptDetector" -> 50
      [] d = "ChocolateyDetector" -> 80

\* The detectors' loops over ctx.symlink_chain return at the first path that
\* hits: the least of the indices that hit, 0 when none does.
FirstIn(hits) == IF hits = {} THEN 0 ELSE Min(hits)

\* CELLAR_REGEX: the leftmost match and its two captures.
CellarPrefixes ==
    { << "opt", "homebrew" >>, << "usr", "local" >>,
      << "home", "linuxbrew", ".linuxbrew" >> }

CellarMatches(p) ==
    UNION { { [at |-> k, pkg |-> k + Len(pre) + 1] :
                k \in { j \in Occurrences(p, "/", pre \o << "Cellar" >>) :
                          j + Len(pre) + 2 < Len(p) } } :
            pre \in CellarPrefixes }

CellarCaptures(p) ==
    IF CellarMatches(p) = {} THEN None
    ELSE LET m == CHOOSE x \in CellarMatches(p) :
                      \A y \in CellarMatches(p) : x.at <= y.at
         IN  Some([package |-> p[m.pkg], version |-> p[m.pkg + 1]])

\* A detector that takes the captures from the last path of the chain that
\* matches.
HomebrewDetectLast(c) ==
    LET hits == { k \in 1..Len(c.symlink_chain) :
                    CellarCaptures(c.symlink_chain[k]) # None }
    IN  IF hits = {} THEN None
        ELSE LET i == CHOOSE k \in hits : \A j \in hits : j <= k
                 cap == CellarCaptures(c.symlink_chain[i])[1]
             IN  Some(DetectionResult(Id("HomebrewDetector"), Name("HomebrewDetector"),
                                      Some(cap.package), Some(cap.version), "High", c))

HomebrewDetect(c) ==
    LET HasCellar(p) == CellarCaptures(p) # None
        i == FirstIn({ k \in 1..Len(c.symlink_chain) : HasCellar(c.symlink_chain[k]) })
        r == c.resolved_path
    IN  IF i # 0 THEN
            LET cap == CellarCaptures(c.symlink_chain[i])[1]
            IN  Some(DetectionResult(Id("HomebrewDetector"), Name("HomebrewDetector"),
                                     Some(cap.package), Some(cap.version), "High", c))
        ELSE IF \/ Contains(r, "/", << "opt", "homebrew" >>)
                \/ Contains(r, "/", << "usr", "local", "Homebrew" >>)
                \/ Contains(r, "/", << "home", "linuxbrew", ".linuxbrew" >>)
        THEN Some(DetectionResult(Id("HomebrewDetector"), Name("HomebrewDetector"),
                                  None, None, "Medium", c))
        ELSE None

\* The names of the model that start with '@'.
Scopes == { "@angular" }

\* extract_npm_package_name
ExtractNpmPackageName(p) ==
    LET found == Occurrences(p, "/", << "node_modules" >>)
    IN  IF found = {} THEN None
        ELSE LET k == Min(found)
                 first == p[k + 1]
             IN  IF first = "" THEN None
                 ELSE IF first \in Scopes /\ Len(p) >= k + 2 /\ p[k + 2] # ""
                 THEN Some(first \o "/" \o p[k + 2])
                 ELSE Some(first)

NpmGlobalDetect(c) ==
    LET IsNpm(p) == \/ Contains(p, "/", << "node_modules" >>)
                    \/ Contains(p, "/", << ".npm-global" >>)
                    \/ Contains(p, "/", << "lib", "node_modules" >>)
        i == FirstIn({ k \in 1..Len(c.symlink_chain) : IsNpm(c.symlink_chain[k]) })
    IN  IF i = 0 THEN None
        ELSE Some(DetectionResult(Id("NpmGlobalDetector"), Name("NpmGlobalDetector"),
                                  ExtractNpmPackageName(c.symlink_chain[i]),
                                  None, "Medium", c))

BunGlobalDetect(c) ==
    LET IsBun(p) == \/ Contains(p, "/", << ".bun", "bin" >>)
                    \/ Contains(p, "/", << ".bun", "install", "global" >>)
    IN  IF FirstIn({ k \in 1..Len(c.symlink_chain) : IsBun(c.symlink_chain[k]) }) = 0 THEN None
        ELSE Some(DetectionResult(Id("BunGlobalDetector"), Name("BunGlobalDetector"),
                                  Some(c.command_name), None, "Medium", c))

UnixSystemDir(p) ==
    \/ StartsWith(p, << "bin" >>)
    \/ StartsWith(p, << "sbin" >>)
    \/ StartsWith(p, << "usr", "bin" >>)
    \/ StartsWith(p, << "usr", "sbin" >>)

\* A detector that looks at the path of the command, not at what it
\* resolves to.
SystemDetectCommandPath(c) ==
    LET r == c.command_path
        is_system ==
            CASE c.platform = "MacOS" ->
                   UnixSystemDir(r) \/ StartsWith(r, << "System" >>)
              [] c.platform = "Linux" -> UnixSystemDir(r)
              [] c.platform = "Windows" ->
                   \/ Contains(r, "\\", << "Windows", "System32" >>)
                   \/ Contains(r, "\\", << "Windows", "SysWOW64" >>)
    IN  IF is_system
        THEN Some(DetectionResult(Id("SystemDetector"), Name("SystemDetector"),
                                  None, None, "Medium", c))
        ELSE None

SystemDetect(c) ==
    LET r == c.resolved_path
        is_system ==
            CASE c.platform = "MacOS" ->
                   UnixSystemDir(r) \/ StartsWith(r, << "System" >>)
              [] c.platform = "Linux" -> UnixSystemDir(r)
              [] c.platform = "Windows" ->
                   \/ Contains(r, "\\", << "Windows", "System32" >>)
                   \/ Contains(r, "\\", << "Windows", "SysWOW64" >>)
    IN  IF is_system
        THEN Some(DetectionResult(Id("SystemDetector"), Name("SystemDetector"),
                                  None, None, "Medium", c))
        ELSE None

\* What the two dpkg tools can answer: `s` is how `dpkg -S` ended and
\* `owner` the text before the first ':' of its output; `q` is how
\* `dpkg-query -W` ended and `version` its output, trimmed.
DpkgAnswer(s, owner, q, version) ==
    [s |-> s, owner |-> owner, q |-> q, version |-> version]

Unasked == DpkgAnswer("unasked", "", "unasked", "")

DpkgAnswers ==
    { DpkgAnswer("spawn_error", "", "unasked", ""),
      DpkgAnswer("exit_failure", "", "unasked", ""),
      DpkgAnswer("success", "git", "spawn_error", ""),
      DpkgAnswer("success", "git", "exit_failure", ""),
      DpkgAnswer("success", "git", "success", "1:2.43.0-1") }

\* query_dpkg
QueryDpkg(a) ==
    IF a.s # "success" THEN None
    ELSE IF a.q \notin { "success", "exit_failure" } THEN None
    ELSE Some([package |-> a.owner, version |-> a.version])

\* AptDetector::detect asks dpkg only about a path in a system directory.
AptAsks(c) == UnixSystemDir(c.resolved_path)

AptDetect(c, a) ==
    IF ~AptAsks(c) THEN None
    ELSE IF QueryDpkg(a) = None THEN None
    ELSE Some(DetectionResult(Id("AptDetector"), Name("AptDetector"),
                              Some(QueryDpkg(a)[1].package),
                              Some(QueryDpkg(a)[1].version), "High", c))

ChocolateyDetect(c) ==
    LET IsChoco(p) == \/ Contains(p, "\\", << "ProgramData", "chocolatey" >>)
                      \/ Contains(p, "\\", << "Chocolatey" >>)
    IN  IF FirstIn({ k \in 1..Len(c.symlink_chain) : IsChoco(c.symlink_chain[k]) }) = 0 THEN None
        ELSE Some(DetectionResult(Id("ChocolateyDetector"), Name("ChocolateyDetector"),
                                  Some(c.command_name), None, "Medium", c))

\* str::ends_with, for a pattern "/a/b".
EndsWith(p, sep, segs) ==
    /\ Sep(p) = sep
    /\ Len(p) > Len(segs)
    /\ SubSeq(p, Len(p) - Len(segs) + 1, Len(p)) = segs

\* Where the pattern + separator occurs, with either separator.
OccurrencesAny(p, segs) ==
    Occurrences(p, "/", segs) \cup Occurrences(p, "\\", segs)

\* The first of the chain's paths for which the extractor gives a name
\* (filter_map(..).next()), or the command name (or_else).
FirstNameOr(names, fallback) ==
    IF \A k \in 1..Len(names) : names[k] = None THEN Some(fallback)
    ELSE names[Min({ k \in 1..Len(names) : names[k] # None })]

\* extract_yarn_package_name
ExtractYarnPackageName(p) ==
    LET found == OccurrencesAny(p, << "node_modules" >>)
    IN  IF found = {} THEN None
        ELSE LET k == Min(found)
                 first == p[k + 1]
             IN  IF first = "" THEN None
                 ELSE IF first \in Scopes /\ Len(p) >= k + 2 /\ p[k + 2] # ""
                 THEN Some(first \o "/" \o p[k + 2])
                 ELSE IF first # ".bin" THEN Some(first)
                 ELSE None

YarnGlobalDetect(c) ==
    LET IsYarn(p) ==
            \/ Contains(p, "/", << ".yarn", "bin" >>)
            \/ EndsWith(p, "/", << ".yarn", "bin" >>)
            \/ Contains(p, "/", << "yarn", "global", "node_modules" >>)
            \/ Contains(p, "\\", << "Yarn", "bin" >>)
            \/ EndsWith(p, "\\", << "Yarn", "bin" >>)
            \/ Contains(p, "\\", << "Yarn", "Data", "global", "node_modules" >>)
        ch == c.symlink_chain
    IN  IF \A k \in 1..Len(ch) : ~IsYarn(ch[k]) THEN None
        ELSE Some(DetectionResult(Id("YarnGlobalDetector"), Name("YarnGlobalDetector"),
                 FirstNameOr([k \in 1..Len(ch) |-> ExtractYarnPackageName(ch[k])],
                             c.command_name),
                 None, "Medium", c))

\* extract_pnpm_package_name
ExtractPnpmPackageName(p) ==
    LET found == OccurrencesAny(p, << "node_modules" >>)
    IN  IF found = {} THEN None
        ELSE LET k == Min(found)
                 first == p[k + 1]
             IN  IF first = "" THEN None
                 ELSE IF first \in Scopes /\ Len(p) >= k + 2 /\ p[k + 2] # ""
                 THEN Some(first \o "/" \o p[k + 2])
                 ELSE IF first # ".bin" /\ first # ".pnpm" THEN Some(first)
                 ELSE None

\* The two AppData patterns have no closing separator: the directory pnpm
\* itself, with or without something below it.
PnpmGlobalDetect(c) ==
    LET IsPnpm(p) ==
            \/ Contains(p, "/", << ".local", "share", "pnpm" >>)
            \/ EndsWith(p, "/", << ".local", "share", "pnpm" >>)
            \/ Contains(p, "/", << "pnpm", "global" >>)
            \/ Contains(p, "\\", << "pnpm" >>)
            \/ Contains(p, "\\", << "AppData", "Local", "pnpm" >>)
            \/ EndsWith(p, "\\", << "AppData", "Local", "pnpm" >>)
            \/ Contains(p, "\\", << "AppData", "Roaming", "pnpm" >>)
            \/ EndsWith(p, "\\", << "AppData", "Roaming", "pnpm" >>)
        ch == c.symlink_chain
    IN  IF \A k \in 1..Len(ch) : ~IsPnpm(ch[k]) THEN None
        ELSE Some(DetectionResult(Id("PnpmGlobalDetector"), Name("PnpmGlobalDetector"),
                 FirstNameOr([k \in 1..Len(ch) |-> ExtractPnpmPackageName(ch[k])],
                             c.command_name),
                 None, "Medium", c))

\* extract_snap_package_name
ExtractSnapPackageName(p) ==
    IF ~StartsWith(p, << "snap" >>) THEN None
    ELSE IF p[3] # "bin" /\ p[3] # "" THEN Some(p[3])
    ELSE None

SnapDetect(c) ==
    LET IsSnap(p) ==
            \/ Contains(p, "/", << "snap", "bin" >>)
            \/ StartsWith(p, << "snap" >>)
            \/ Contains(p, "/", << "snapd", "snap" >>)
        ch == c.symlink_chain
        i == FirstIn({ k \in 1..Len(ch) : IsSnap(ch[k]) })
    IN  IF i = 0 THEN None
        ELSE Some(DetectionResult(Id("SnapDetector"), Name("SnapDetector"),
                 IF ExtractSnapPackageName(ch[i]) # None
                 THEN ExtractSnapPackageName(ch[i]) ELSE Some(c.command_name),
                 None, "Medium", c))

\* extract_mise_tool_name
ExtractMiseToolName(p) ==
    LET found == OccurrencesAny(p, << "mise", "installs" >>)
    IN  IF found = {} THEN None
        ELSE IF p[Min(found) + 2] # "" THEN Some(p[Min(found) + 2])
        ELSE None

MiseDetect(c) ==
    LET IsMise(p) ==
            \/ OccurrencesAny(p, << "mise", "installs" >>) # {}
            \/ OccurrencesAny(p, << "mise", "shims" >>) # {}
            \/ EndsWith(p, "/", << "mise", "shims" >>)
            \/ EndsWith(p, "\\", << "mise", "shims" >>)
        ch == c.symlink_chain
        i == FirstIn({ k \in 1..Len(ch) : IsMise(ch[k]) })
    IN  IF i = 0 THEN None
        ELSE Some(DetectionResult(Id("MiseDetector"), Name("MiseDetector"),
                 ExtractMiseToolName(ch[i]), None, "Medium", c))

\* extract_pipx_package_name
ExtractPipxPackageName(p) ==
    LET found == OccurrencesAny(p, << "pipx", "venvs" >>)
    IN  IF found = {} THEN None
        ELSE IF p[Min(found) + 2] # "" THEN Some(p[Min(found) + 2])
        ELSE None

PipxDetect(c) ==
    LET ch == c.symlink_chain
        i == FirstIn({ k \in 1..Len(ch) :
                         OccurrencesAny(ch[k], << "pipx", "venvs" >>) # {} })
    IN  IF i = 0 THEN None
        ELSE Some(DetectionResult(Id("PipxDetector"), Name("PipxDetector"),
                 ExtractPipxPackageName(ch[i]), None, "Medium", c))

(***************************************************************************)
(* The Nix extractors cut inside a segment, so for them a string is the    *)
(* sequence of its characters.                                             *)
(***************************************************************************)
Digits == { "0", "1", "2", "3", "4", "5", "6", "7", "8", "9" }

\* str::find: the first place where pat occurs in s, 0 when it does not.
Find(s, pat) ==
    LET at == { i \in 1..(Len(s) - Len(pat) + 1) :
                  SubSeq(s, i, i + Len(pat) - 1) = pat }
    IN  IF at = {} THEN 0 ELSE Min(at)

\* str::rfind of one character: the last place, 0 when there is none.
RFind(s, ch) ==
    LET at == { i \in 1..Len(s) : s[i] = ch }
    IN  IF at = {} THEN 0 ELSE CHOOSE i \in at : \A j \in at : j <= i

NixStore == << "/", "n", "i", "x", "/", "s", "t", "o", "r", "e", "/" >>

\* Lines 87-94 and 116-121: the text after the hash and its dash in the
\* store entry of the path, when the path has a store entry of that form.
NixNameVersion(s) ==
    IF Find(s, NixStore) = 0 THEN None
    ELSE LET after_store == SubSeq(s, Find(s, NixStore) + 11, Len(s))
             slash_idx == Find(after_store, << "/" >>)
             store_path == SubSeq(after_store, 1, slash_idx - 1)
         IN  IF slash_idx = 0 THEN None
             ELSE IF Len(store_path) > 33 /\ store_path[33] = "-"
             THEN Some(SubSeq(store_path, 34, Len(store_path)))
             ELSE None

\* Lines 96-103 and 122-128: the last dash is followed by a digit.
NixLooksVersioned(nv) ==
    /\ RFind(nv, "-") # 0
    /\ RFind(nv, "-") < Len(nv)
    /\ nv[RFind(nv, "-") + 1] \in Digits

\* extract_nix_package_name
ExtractNixPackageName(s) ==
    IF NixNameVersion(s) = None THEN None
    ELSE LET nv == NixNameVersion(s)[1]
         IN  IF NixLooksVersioned(nv)
             THEN Some(SubSeq(nv, 1, RFind(nv, "-") - 1))
             ELSE Some(nv)

\* extract_nix_version
ExtractNixVersion(s) ==
    IF NixNameVersion(s) = None THEN None
    ELSE LET nv == NixNameVersion(s)[1]
         IN  IF NixLooksVersioned(nv)
             THEN Some(SubSeq(nv, RFind(nv, "-") + 1, Len(nv)))
             ELSE None

(***************************************************************************)
(* NDetector.  It reads the filesystem: `f` maps a path to what is there.  *)
(***************************************************************************)
\* Path::file_name: None for the empty path, a root, and a path ending "..".
FileName(p) ==
    IF p = << >> \/ Last(p) \in { "..", "/", "C:" } THEN None ELSE Some(Last(p))

Dir(entries) == [kind |-> "dir", target |-> << >>, entries |-> entries]

\* Path::exists and Path::is_dir
IsDirIn(f, p) == p \in DOMAIN f /\ f[p].kind = "dir"

\* get_n_prefix_from_bin_path
GetNPrefixFromBinPath(p) ==
    IF Parent(p) = None THEN None
    ELSE IF FileName(Parent(p)[1]) # Some("bin") THEN None
    ELSE Parent(Parent(p)[1])

\* Lines 49-50: the prefix of command_path, or else that of resolved_path.
NPrefix(c, f) ==
    IF GetNPrefixFromBinPath(c.command_path) # None
    THEN GetNPrefixFromBinPath(c.command_path)
    ELSE GetNPrefixFromBinPath(c.resolved_path)

NTargetCommands == { "node", "npm", "npx", "corepack" }

\* Lines 36-39: the base of the command name, given as a path.
CommandBase(name) == IF FileName(name) # None THEN FileName(name)[1] ELSE name

\* get_installed_version: the subdirectory read_dir yields first, if any;
\* the order of read_dir is the filesystem's.
InstalledVersions(f, dir) ==
    IF f[dir].entries = {} THEN { None } ELSE { Some(v) : v \in f[dir].entries }

\* NDetector::detect; `version` is what get_installed_version returned.
NDetect(c, f, version) ==
    IF CommandBase(c.command_name) \notin NTargetCommands THEN None
    ELSE IF NPrefix(c, f) = None THEN None
    ELSE IF ~IsDirIn(f, NPrefix(c, f)[1] \o << "n", "versions", "node" >>) THEN None
    ELSE Some(DetectionResult(Id("NDetector"), Name("NDetector"),
                              Some(CommandBase(c.command_name)), version,
                              "Medium", c))

\* PackageManagerDetector::detect of detector d; `a` is dpkg's answer.
Detect(d, c, a) ==
    CASE d = "HomebrewDetector" -> HomebrewDetect(c)
      [] d = "NpmGlobalDetector" -> NpmGlobalDetect(c)
      [] d = "BunGlobalDetector" -> BunGlobalDetect(c)
      [] d = "SystemDetector" -> SystemDetect(c)
      [] d = "AptDetector" -> AptDetect(c, a)
      [] d = "ChocolateyDetector" -> ChocolateyDetect(c)
      [] d = "YarnGlobalDetector" -> YarnGlobalDetect(c)
      [] d = "PnpmGlobalDetector" -> PnpmGlobalDetect(c)
      [] d = "SnapDetector" -> SnapDetect(c)
      [] d = "MiseDetector" -> MiseDetect(c)
      [] d = "PipxDetector" -> PipxDetect(c)

(***************************************************************************)
(* PackageManagerRegistry::new                                             *)
(***************************************************************************)
\* The vec! of line 87 and the two cfg(target_os) pushes.
Registered(tgt) ==
    << "HomebrewDetector", "NpmGlobalDetector", "BunGlobalDetector",
       "SystemDetector" >>
    \o (IF tgt = "linux" THEN << "AptDetector" >> ELSE << >>)
    \o (IF tgt = "windows" THEN << "ChocolateyDetector" >> ELSE << >>)

\* A sort that puts an element in front of those of the same priority.
RECURSIVE SortByKeyUnstable(_, _)
SortByKeyUnstable(s, pr) ==
    IF s = << >> THEN << >>
    ELSE LET sorted == SortByKeyUnstable(Front(s), pr)
             x == Last(s)
             ahead == { i \in 1..Len(sorted) : pr[sorted[i]] > pr[x] }
             n == IF ahead = {} THEN 0 ELSE CHOOSE i \in ahead : \A j \in ahead : j <= i
         IN  SubSeq(sorted, 1, n) \o << x >> \o SubSeq(sorted, n + 1, Len(sorted))

\* sort_by_key(|d| Reverse(d.priority())): a stable sort, written as the
\* insertion of every element behind those whose priority is not lower.
RECURSIVE SortByKey(_, _)
SortByKey(s, pr) ==
    IF s = << >> THEN << >>
    ELSE LET sorted == SortByKey(Front(s), pr)
             x == Last(s)
             ahead == { i \in 1..Len(sorted) : pr[sorted[i]] >= pr[x] }
             n == IF ahead = {} THEN 0 ELSE CHOOSE i \in ahead : \A j \in ahead : j <= i
         IN  SubSeq(sorted, 1, n) \o << x >> \o SubSeq(sorted, n + 1, Len(sorted))

\* The registry with the sort left out: registration order.
RegistryNewUnsorted(tgt, pr) == Registered(tgt)

RegistryNew(tgt, pr) == SortByKey(Registered(tgt), pr)

(***************************************************************************)
(* follow_symlinks                                                         *)
(***************************************************************************)
\* Lines 14-22: the path pushed for a link target that was read.
Resolved(f, cur, t) ==
    LET joined == IF IsAbsolute(t) THEN t
                  ELSE IF Parent(cur) # None THEN Join(Parent(cur)[1], t)
                  ELSE t
        canon == Canonicalize(f, joined)
    IN  IF canon.ok THEN canon.path ELSE joined

\* The paths follow_symlinks is called with directly.
Nowhere == << "/", "nonexistent", "path", "to", "file" >>

StartPaths == Slots \cup { << >>, << "git" >>, Nowhere }

\* A chain that starts empty.
InitialChainEmpty(p) == << >>

\* Line 7: the chain starts as the path given.
InitialChain(p) == << p >>

\* Lines 12-13, the arm Ok: `current` was not in `seen` and its link is read.
LoopFollows(f, cur, sn) == cur \notin sn /\ ReadLink(f, cur).ok

\* A loop that is left only when the link cannot be read.
LoopEndsOnErrorOnly(f, cur, sn) == cur \notin sn /\ ~ReadLink(f, cur).ok

\* Lines 12 and 26-28: the loop is left when seen.insert returns false, or
\* when read_link fails on a path that is no symlink or cannot be read.
LoopEnds(f, cur, sn) == cur \in sn \/ ~ReadLink(f, cur).ok

\* One iteration of the loop whose link is read: push the target, go on.
FollowLink ==
    /\ pc = "walk"
    /\ LoopFollows(fs, current, seen)
    /\ LET r == Resolved(fs, current, ReadLink(fs, current).path)
       IN  /\ chain' = Append(chain, r)
           /\ current' = r
    /\ seen' = seen \cup { current }
    /\ UNCHANGED << entry, target, fs, command, prio, detectors, pc,
                    command_path, path, ctx, idx, dpkg, log, ret >>

\* A walk that gives up when the link cannot be read: nothing is returned,
\* and Detector::detect returns an error.
EndWalkFails ==
    /\ pc = "walk"
    /\ LoopEnds(fs, current, seen)
    /\ seen' = seen \cup { current }
    /\ IF entry = "follow_symlinks"
       THEN pc' = "Returned" /\ ret' = Some(<< >>)
       ELSE /\ pc' = "ResolutionFailed"
            /\ ret' = Some([ok |-> FALSE, value |-> None,
                            error |-> Some([variant |-> "Io", name |-> command])])
    /\ UNCHANGED << entry, target, fs, command, prio, detectors, command_path,
                    path, chain, current, ctx, idx, dpkg, log >>

\* The loop ends and the chain is returned (line 31); Detector::detect goes
\* on with it (line 34).
EndWalk ==
    /\ pc = "walk"
    /\ LoopEnds(fs, current, seen)
    /\ seen' = seen \cup { current }
    /\ IF entry = "follow_symlinks"
       THEN pc' = "Returned" /\ ret' = Some(chain)
       ELSE pc' = "context" /\ UNCHANGED ret
    /\ UNCHANGED << entry, target, fs, command, prio, detectors, command_path,
                    path, chain, current, ctx, idx, dpkg, log >>

(***************************************************************************)
(* resolve_command: which::which searches the directories of PATH in order *)
(* for an executable of that name, and returns the first path as listed,   *)
(* symlink or not.                                                         *)
(***************************************************************************)
PathDirs ==
    << << "/", "home", "u", "bin" >>,
       << "/", "opt", "homebrew", "bin" >>,
       << "/", "usr", "bin" >> >>

\* A path that names an executable file, through symlinks or directly.
IsExecutable(f, p) == Canonicalize(f, p).ok /\ ~IsDir(Canonicalize(f, p).path)

\* A search that takes the first directory of PATH without looking into it.
WhichUnchecked(f, name, dirs) ==
    IF dirs = << >> THEN None ELSE Some(Head(dirs) \o << name >>)

RECURSIVE Which(_, _, _)
Which(f, name, dirs) ==
    IF dirs = << >> THEN None
    ELSE IF IsExecutable(f, Head(dirs) \o << name >>)
         THEN Some(Head(dirs) \o << name >>)
         ELSE Which(f, name, Tail(dirs))

ResolveCommand(f, name) == Which(f, name, PathDirs)

CommandNotFound(name) == [variant |-> "CommandNotFound", name |-> name]

\* Result<DetectionResult>
OkResult(r) == [ok |-> TRUE, value |-> Some(r), error |-> None]
ErrResult(e) == [ok |-> FALSE, value |-> None, error |-> Some(e)]

(***************************************************************************)
(* Detector::detect                                                        *)
(***************************************************************************)
\* Line 28, the path found: follow_symlinks starts on it (lines 7-9).
ResolveFound ==
    /\ pc = "resolve"
    /\ ResolveCommand(fs, command) # None
    /\ command_path' = ResolveCommand(fs, command)
    /\ path' = ResolveCommand(fs, command)
    /\ chain' = InitialChain(ResolveCommand(fs, command)[1])
    /\ current' = ResolveCommand(fs, command)[1]
    /\ seen' = {}
    /\ pc' = "walk"
    /\ UNCHANGED << entry, target, fs, command, prio, detectors, ctx, idx,
                    dpkg, log, ret >>

\* Line 28, the `?`: the error of resolve_command is returned.
ResolveFailed ==
    /\ pc = "resolve"
    /\ ResolveCommand(fs, command) = None
    /\ ret' = Some(ErrResult(CommandNotFound(command)))
    /\ pc' = "ResolutionFailed"
    /\ UNCHANGED << entry, target, fs, command, prio, detectors, command_path,
                    path, chain, current, seen, ctx, idx, dpkg, log >>

\* The resolved path taken from the front of the chain.
ResolvedPathFirst(ch, cpath) == IF ch = << >> THEN cpath ELSE Head(ch)

\* Lines 35-51: resolved_path and the DetectionContext.
ResolvedPath(ch, cpath) == IF ch = << >> THEN cpath ELSE Last(ch)

BuildContext ==
    /\ pc = "context"
    /\ ctx' = Some(DetectionContext(command, command_path[1], chain,
                                    ResolvedPath(chain, command_path[1]),
                                    PlatformCurrent(target)))
    /\ pc' = "registry"
    /\ UNCHANGED << entry, target, fs, command, prio, detectors, command_path,
                    path, chain, current, seen, idx, dpkg, log, ret >>

\* Line 54: self.registry.detect is entered.
EnterRegistry ==
    /\ pc = "registry"
    /\ idx' = 1
    /\ pc' = "eval"
    /\ UNCHANGED << entry, target, fs, command, prio, detectors, command_path,
                    path, chain, current, seen, ctx, dpkg, log, ret >>

(***************************************************************************)
(* PackageManagerRegistry::detect                                          *)
(***************************************************************************)
Asked(d) == << "supports_platform", d >>
Tried(d) == << "detect", d >>

\* What dpkg may answer detector d on context c: only the apt detector asks,
\* and only about a path in a system directory.
Answers(d, c) ==
    IF d = "AptDetector" /\ AptAsks(c) THEN DpkgAnswers ELSE { dpkg }

\* Lines 113-115: the detector does not support the platform.
SkipDetector ==
    /\ pc = "eval"
    /\ idx <= Len(detectors)
    /\ ~SupportsPlatform(detectors[idx], ctx[1].platform)
    /\ log' = Append(log, Asked(detectors[idx]))
    /\ idx' = idx + 1
    /\ UNCHANGED << entry, target, fs, command, prio, detectors, pc,
                    command_path, path, chain, current, seen, ctx, dpkg, ret >>

\* A miss after which the same detector is in turn again.
DetectorMissesStays ==
    /\ pc = "eval"
    /\ idx <= Len(detectors)
    /\ SupportsPlatform(detectors[idx], ctx[1].platform)
    /\ \E a \in Answers(detectors[idx], ctx[1]) :
          /\ Detect(detectors[idx], ctx[1], a) = None
          /\ dpkg' = a
    /\ log' = << Asked(detectors[idx]), Tried(detectors[idx]) >>
    /\ idx' = idx
    /\ UNCHANGED << entry, target, fs, command, prio, detectors, pc,
                    command_path, path, chain, current, seen, ctx, ret >>

\* Lines 121-126 with no result: on to the next detector.
DetectorMisses ==
    /\ pc = "eval"
    /\ idx <= Len(detectors)
    /\ SupportsPlatform(detectors[idx], ctx[1].platform)
    /\ \E a \in Answers(detectors[idx], ctx[1]) :
          /\ Detect(detectors[idx], ctx[1], a) = None
          /\ dpkg' = a
    /\ log' = log \o << Asked(detectors[idx]), Tried(detectors[idx]) >>
    /\ idx' = idx + 1
    /\ UNCHANGED << entry, target, fs, command, prio, detectors, pc,
                    command_path, path, chain, current, seen, ctx, ret >>

\* A match that is remembered while the loop goes on to the next detector.
DetectorMatchesGoesOn ==
    /\ pc = "eval"
    /\ idx <= Len(detectors)
    /\ SupportsPlatform(detectors[idx], ctx[1].platform)
    /\ \E a \in Answers(detectors[idx], ctx[1]) :
          /\ Detect(detectors[idx], ctx[1], a) # None
          /\ dpkg' = a
          /\ ret' = IF entry = "registry_detect"
                    THEN Some(Detect(detectors[idx], ctx[1], a))
                    ELSE Some(OkResult(Detect(detectors[idx], ctx[1], a)[1]))
    /\ log' = log \o << Asked(detectors[idx]), Tried(detectors[idx]) >>
    /\ IF idx < Len(detectors)
       THEN pc' = pc /\ idx' = idx + 1
       ELSE pc' = (IF entry = "registry_detect" THEN "Returned" ELSE "Matched")
            /\ idx' = idx
    /\ UNCHANGED << entry, target, fs, command, prio, detectors,
                    command_path, path, chain, current, seen, ctx >>

\* A match accepted without asking supports_platform.
DetectorMatchesAnyPlatform ==
    /\ pc = "eval"
    /\ idx <= Len(detectors)
    /\ \E a \in Answers(detectors[idx], ctx[1]) :
          /\ Detect(detectors[idx], ctx[1], a) # None
          /\ dpkg' = a
          /\ ret' = IF entry = "registry_detect"
                    THEN Some(Detect(detectors[idx], ctx[1], a))
                    ELSE Some(OkResult(Detect(detectors[idx], ctx[1], a)[1]))
    /\ log' = Append(log, Tried(detectors[idx]))
    /\ pc' = IF entry = "registry_detect" THEN "Returned" ELSE "Matched"
    /\ UNCHANGED << entry, target, fs, command, prio, detectors, idx,
                    command_path, path, chain, current, seen, ctx >>

\* Lines 121-126 with a result: it is returned, and Detector::detect
\* returns it in turn (line 55).
DetectorMatches ==
    /\ pc = "eval"
    /\ idx <= Len(detectors)
    /\ SupportsPlatform(detectors[idx], ctx[1].platform)
    /\ \E a \in Answers(detectors[idx], ctx[1]) :
          /\ Detect(detectors[idx], ctx[1], a) # None
          /\ dpkg' = a
          /\ ret' = IF entry = "registry_detect"
                    THEN Some(Detect(detectors[idx], ctx[1], a))
                    ELSE Some(OkResult(Detect(detectors[idx], ctx[1], a)[1]))
    /\ log' = log \o << Asked(detectors[idx]), Tried(detectors[idx]) >>
    /\ pc' = IF entry = "registry_detect" THEN "Returned" ELSE "Matched"
    /\ UNCHANGED << entry, target, fs, command, prio, detectors, idx,
                    command_path, path, chain, current, seen, ctx >>

\* A fallback that claims a bare path-pattern match.
UnknownResultLow(cpath, rpath) ==
    [ manager_id |-> "unknown", manager_name |-> "Unknown",
      package_name |-> None, version |-> None, confidence |-> "Low",
      command_path |-> cpath, resolved_path |-> rpath ]

\* A fallback that carries the command path as the resolved path.
UnknownResultUnresolved(cpath, rpath) ==
    [ manager_id |-> "unknown", manager_name |-> "Unknown",
      package_name |-> None, version |-> None, confidence |-> "Uncertain",
      command_path |-> cpath, resolved_path |-> cpath ]

\* Lines 58-67 of Detector::detect: the fallback.
UnknownResult(cpath, rpath) ==
    [ manager_id |-> "unknown", manager_name |-> "Unknown",
      package_name |-> None, version |-> None, confidence |-> "Uncertain",
      command_path |-> cpath, resolved_path |-> rpath ]

\* Line 128: no detector is left, the registry returns None; Detector::detect
\* returns the fallback.
Exhausted ==
    /\ pc = "eval"
    /\ idx > Len(detectors)
    /\ IF entry = "registry_detect"
       THEN pc' = "Returned" /\ ret' = Some(None)
       ELSE /\ pc' = "Unknown"
            /\ ret' = Some(OkResult(UnknownResult(
                          command_path[1], ResolvedPath(chain, command_path[1]))))
    /\ UNCHANGED << entry, target, fs, command, prio, detectors, idx,
                    command_path, path, chain, current, seen, ctx, dpkg, log >>

(***************************************************************************)
(* The calls.                                                              *)
(***************************************************************************)
Commands == { "git", "nope" }

\* The priorities as the code gives them.
CodePriority(tgt) ==
    [d \in { Registered(tgt)[i] : i \in 1..Len(Registered(tgt)) } |-> Priority(d)]

\* The priorities with those of two detectors exchanged.
Swapped(pr, a, b) ==
    [d \in DOMAIN pr |-> IF d = a THEN pr[b] ELSE IF d = b THEN pr[a] ELSE pr[d]]

\* The paths of the contexts PackageManagerRegistry::detect is called with
\* directly, as the tests build them.
BunModules ==
    << "/", "home", "u", ".bun", "install", "global", "node_modules", "git", "cli.js" >>
NpmModules == << "/", "usr", "lib", "node_modules", "@angular", "cli", "bin", "ng" >>
BunBin == << "/", "home", "u", ".bun", "bin", "git" >>
System32 == << "C:", "Windows", "System32", "git.exe" >>
ChocoBin == << "C:", "ProgramData", "chocolatey", "bin", "git.exe" >>

CellarNode == << "/", "usr", "local", "Cellar", "node", "22.0.0", "bin", "node" >>

ContextPaths ==
    { BunBin, BrewBin, Cellar, UsrBin, BunModules, NpmModules, HomeBin,
      System32, ChocoBin, CellarNode }

\* Chains of one path, and of a first path followed by a target.
ContextFirsts == { BunBin, BrewBin, HomeBin, CellarNode }

YarnBin == << "/", "home", "u", ".yarn", "bin", "tsc" >>
YarnModules ==
    << "/", "home", "u", ".config", "yarn", "global", "node_modules",
       "typescript", "bin", "tsc" >>

ContextChains ==
    { << p >> : p \in ContextPaths }
    \cup { << p, q >> : p \in ContextFirsts, q \in ContextPaths \ ContextFirsts }
    \cup { << YarnBin, YarnModules >> }

\* The paths of the contexts the unit tests of the detectors build
\* (make_context): one path, or a first path and what it resolves to.
NpmDotBin == << "/", "home", "u", "proj", "node_modules", ".bin", "eslint" >>
NpmEslint ==
    << "/", "home", "u", "proj", "node_modules", "eslint", "bin", "eslint.js" >>
NodeModulesSlash == << "/", "foo", "node_modules", "" >>
NodeModulesOnly == << "/", "foo", "node_modules" >>
ScopeOnly == << "/", "usr", "lib", "node_modules", "@angular" >>
ScopeSlash == << "/", "usr", "lib", "node_modules", "@angular", "" >>
YarnDotBin ==
    << "/", "home", "u", ".config", "yarn", "global", "node_modules", ".bin", "tsc" >>
PnpmHome == << "/", "home", "u", ".local", "share", "pnpm", "tsc" >>
PnpmStore ==
    << "/", "home", "u", ".local", "share", "pnpm", "global", "5", "node_modules",
       ".pnpm", "typescript@5.4.2", "node_modules", "typescript", "bin", "tsc" >>
PnpmModules ==
    << "/", "home", "u", ".local", "share", "pnpm", "global", "5", "node_modules",
       "typescript", "bin", "tsc" >>
SnapBin == << "/", "snap", "bin", "code" >>
SnapPackage == << "/", "snap", "code", "123", "bin", "code" >>
SnapdBin == << "/", "var", "lib", "snapd", "snap", "bin", "code" >>
MiseInstall ==
    << "/", "home", "u", ".local", "share", "mise", "installs", "node", "20.0.0",
       "bin", "node" >>
MiseShim == << "/", "home", "u", ".local", "share", "mise", "shims", "node" >>
PipxVenv == << "/", "home", "u", ".local", "pipx", "venvs", "black", "bin", "black" >>

BinSh == << "/", "bin", "sh" >>
SbinIp == << "/", "sbin", "ip" >>
UsrSbin == << "/", "usr", "sbin", "sshd" >>
UsrBinDir == << "/", "usr", "bin" >>
SystemRuby == << "/", "System", "Library", "Frameworks", "ruby" >>
UsrLocalBin == << "/", "usr", "local", "bin", "myapp" >>
SysWOW64 == << "C:", "Windows", "SysWOW64", "cmd.exe" >>

UnitFirsts ==
    { NpmDotBin, YarnBin, PnpmHome, SnapBin, MiseShim, BrewBin, HomeBin, UsrBin }

UnitPaths ==
    UnitFirsts \cup
    { NpmEslint, NpmModules, NodeModulesSlash, NodeModulesOnly, ScopeOnly,
      ScopeSlash, YarnModules, YarnDotBin, PnpmStore, PnpmModules, SnapPackage,
      SnapdBin, MiseInstall, PipxVenv, Cellar, System32, BinSh, SbinIp,
      UsrSbin, UsrBinDir, SystemRuby, UsrLocalBin, SysWOW64 }

UnitChains ==
    { << p >> : p \in UnitPaths }
    \cup { << p, q >> : p \in UnitFirsts, q \in UnitPaths \ UnitFirsts }

UnitCommands == { "git", "node" }

\* The detector units a test builds and calls detect on.
UnitDetectors ==
    { "HomebrewDetector", "NpmGlobalDetector", "BunGlobalDetector",
      "SystemDetector", "AptDetector", "ChocolateyDetector",
      "YarnGlobalDetector", "PnpmGlobalDetector", "SnapDetector",
      "MiseDetector", "PipxDetector" }

\* Nothing has been called yet.
Init ==
    /\ entry = "none"
    /\ target = "linux"
    /\ fs = [s \in Slots |-> Absent]
    /\ command = ""
    /\ prio = CodePriority("linux")
    /\ detectors = << >>
    /\ pc = "idle"
    /\ command_path = None
    /\ path = None
    /\ chain = << >>
    /\ current = << >>
    /\ seen = {}
    /\ ctx = None
    /\ idx = 0
    /\ dpkg = Unasked
    /\ log = << >>
    /\ ret = None

\* detect_command(command) on some build and filesystem: a Detector is built
\* (the registry with it) and its detect called.
CallDetectCommand ==
    /\ pc = "idle"
    /\ entry' = "detect_command"
    /\ target' \in { "macos", "linux" }
    /\ fs' \in Filesystems
    /\ command' \in Commands
    /\ prio' = CodePriority(target')
    /\ detectors' = RegistryNew(target', prio')
    /\ pc' = "resolve"
    /\ UNCHANGED << command_path, path, chain, current, seen, ctx, idx, dpkg,
                    log, ret >>

\* follow_symlinks(path), called directly on some filesystem (lines 7-9).
CallFollowSymlinks ==
    /\ pc = "idle"
    /\ entry' = "follow_symlinks"
    /\ fs' \in Filesystems
    /\ \E p \in StartPaths :
          path' = Some(p) /\ chain' = InitialChain(p) /\ current' = p
    /\ seen' = {}
    /\ pc' = "walk"
    /\ UNCHANGED << target, command, prio, detectors, command_path, ctx, idx,
                    dpkg, log, ret >>

\* The priorities with that of detector a made equal to that of b.
Tied(pr, a, b) == [d \in DOMAIN pr |-> IF d = a THEN pr[b] ELSE pr[d]]

\* PackageManagerRegistry::new().detect(ctx), called directly; the registry
\* is that of the code, or that of the code with the priorities of two
\* detectors exchanged, or with the priority of one given to another.
CallRegistryDetect ==
    /\ pc = "idle"
    /\ entry' = "registry_detect"
    /\ target' \in { "macos", "linux", "windows" }
    /\ command' = "git"
    /\ \E a, b \in DOMAIN CodePriority(target') :
          prio' \in { Swapped(CodePriority(target'), a, b),
                      Tied(CodePriority(target'), a, b) }
    /\ detectors' = RegistryNew(target', prio')
    /\ \E ch \in ContextChains, plat \in Platforms :
          /\ chain' = ch
          /\ ctx' = Some(DetectionContext(command', ch[1], ch, Last(ch), plat))
    /\ idx' = 1
    /\ pc' = "eval"
    /\ UNCHANGED << fs, command_path, path, current, seen, dpkg, log, ret >>

Next ==
    \/ CallDetectCommand
    \/ CallFollowSymlinks
    \/ CallRegistryDetect
    \/ ResolveFound
    \/ ResolveFailed
    \/ FollowLink
    \/ EndWalk
    \/ BuildContext
    \/ EnterRegistry
    \/ SkipDetector
    \/ DetectorMisses
    \/ DetectorMatches
    \/ Exhausted

Spec == Init /\ [][Next]_vars

(***************************************************************************)
(* A detector called on its own, as the unit tests of the detectors do:    *)
(* make_context builds the context from a command name, a chain and a      *)
(* platform, and detect is called on it.                                   *)
(***************************************************************************)
\* make_context: command_path is the first path, resolved_path the last.
MakeContext(name, ch, plat) ==
    DetectionContext(name, ch[1], ch, ch[Len(ch)], plat)

CallUnitDetect ==
    /\ pc = "idle"
    /\ entry' = "unit_detect"
    /\ \E d \in UnitDetectors : detectors' = << d >>
    /\ \E name \in UnitCommands, ch \in UnitChains, plat \in Platforms :
          ctx' = Some(MakeContext(name, ch, plat))
    /\ pc' = "unit"
    /\ UNCHANGED << target, fs, command, prio, command_path, path, chain,
                    current, seen, idx, dpkg, log, ret >>

\* detector.detect(&ctx)
UnitDetect ==
    /\ pc = "unit"
    /\ \E a \in Answers(detectors[1], ctx[1]) :
          /\ dpkg' = a
          /\ ret' = Some(Detect(detectors[1], ctx[1], a))
    /\ pc' = "UnitReturned"
    /\ UNCHANGED << entry, target, fs, command, prio, detectors, command_path,
                    path, chain, current, seen, ctx, idx, log >>

UnitNext == CallUnitDetect \/ UnitDetect

UnitSpec == Init /\ [][UnitNext]_vars

(***************************************************************************)
(* The Nix extractors called on a path string, as nix.rs's tests do.       *)
(***************************************************************************)
MaxNameLen == 3
MaxVersionLen == 3

\* The 32 characters of a store hash.
NixHash == [i \in 1..32 |-> "a"]

\* Words over an alphabet, by length.
RECURSIVE Words(_, _)
Words(alphabet, n) ==
    IF n = 0 THEN { << >> }
    ELSE LET shorter == Words(alphabet, n - 1)
         IN  shorter \cup { Append(w, a) : w \in shorter, a \in alphabet }

\* Package names: they start with a letter and do not end with a dash.
NixNames ==
    { w \in Words({ "h", "-", "3" }, MaxNameLen) :
        w # << >> /\ w[1] = "h" /\ w[Len(w)] # "-" }

\* Versions: they start with a digit and do not end with a dash or a dot
\* (2, 2.2, 2r, 2-r as in 2.10-rc1, 2-2 as in 2.38-27).
NixVersions ==
    { w \in Words({ "2", ".", "-", "r" }, MaxVersionLen) :
        w # << >> /\ w[1] = "2" /\ w[Len(w)] \notin { "-", "." } }

NixTails == { << "/", "b", "i", "n", "/", "h" >>, << "/" >> }

\* /nix/store/{hash}-{name}-{version}{tail}, or without the version.
NixPath(name, version, tail) ==
    NixStore \o NixHash \o << "-" >> \o name
        \o (IF version = None THEN << >> ELSE << "-" >> \o version[1]) \o tail

\* A test builds a path from a name and a version, or from a name alone.
CallExtractNix ==
    /\ pc = "idle"
    /\ entry' = "extract_nix"
    /\ \E name \in NixNames, tail \in NixTails,
          version \in { None } \cup { Some(v) : v \in NixVersions } :
          /\ chain' = << name >> \o version
          /\ path' = Some(NixPath(name, version, tail))
    /\ pc' = "nix"
    /\ UNCHANGED << target, fs, command, prio, detectors, command_path,
                    current, seen, ctx, idx, dpkg, log, ret >>

\* extract_nix_package_name(path), extract_nix_version(path)
ExtractNix ==
    /\ pc = "nix"
    /\ ret' = Some([ package_name |-> ExtractNixPackageName(path[1]),
                     version |-> ExtractNixVersion(path[1]) ])
    /\ pc' = "NixReturned"
    /\ UNCHANGED << entry, target, fs, command, prio, detectors, command_path,
                    path, chain, current, seen, ctx, idx, dpkg, log >>

NixNext == CallExtractNix \/ ExtractNix

NixSpec == Init /\ [][NixNext]_vars

(***************************************************************************)
(* NDetector called on its own, on a filesystem that may hold the          *)
(* directories {PREFIX}/n/versions/node.                                   *)
(***************************************************************************)
UsrLocalNode == << "/", "usr", "local", "bin", "node" >>
UsrLocalNpm == << "/", "usr", "local", "bin", "npm" >>
HomeNode == << "/", "home", "u", "bin", "node" >>
OptNode == << "/", "opt", "node" >>
NpmCli ==
    << "/", "usr", "local", "lib", "node_modules", "npm", "bin", "npm-cli.js" >>

NChains ==
    { << UsrLocalNode >>, << HomeNode >>, << OptNode >>, << NpmCli >>,
      << HomeNode, UsrLocalNode >>, << UsrLocalNode, HomeNode >>,
      << OptNode, UsrLocalNode >>, << UsrLocalNpm, NpmCli >> }

\* Command names, as the paths Path::new makes of them.
NCommands ==
    { << "node" >>, << "npm" >>, << "npx" >>, << "corepack" >>, << "git" >>,
      UsrLocalNode }

NSlots ==
    { << "/", "usr", "local", "n", "versions", "node" >>,
      << "/", "home", "u", "n", "versions", "node" >> }

NFilesystems == [NSlots -> { Absent, File, Dir({}), Dir({ "20.0.0" }) }]

CallNDetect ==
    /\ pc = "idle"
    /\ entry' = "n_detect"
    /\ detectors' = << "NDetector" >>
    /\ fs' \in NFilesystems
    /\ \E name \in NCommands, ch \in NChains, plat \in Platforms :
          ctx' = Some(MakeContext(name, ch, plat))
    /\ pc' = "n"
    /\ UNCHANGED << target, command, prio, command_path, path, chain,
                    current, seen, idx, dpkg, log, ret >>

\* detector.detect(&ctx): read_dir yields one of the entries first.
NDetectReturns ==
    /\ pc = "n"
    /\ LET dir == NPrefix(ctx[1], fs)[1] \o << "n", "versions", "node" >>
       IN  \E version \in IF NPrefix(ctx[1], fs) # None /\ IsDirIn(fs, dir)
                           THEN InstalledVersions(fs, dir) ELSE { None } :
               ret' = Some(NDetect(ctx[1], fs, version))
    /\ pc' = "NReturned"
    /\ UNCHANGED << entry, target, fs, command, prio, detectors, command_path,
                    path, chain, current, seen, ctx, idx, dpkg, log >>

NNext == CallNDetect \/ NDetectReturns

NSpec == Init /\ [][NNext]_vars

(***************************************************************************)
(* Properties.                                                             *)
(***************************************************************************)
Range(q) == { q[i] : i \in 1..Len(q) }

\* The place of detector d in the registration (line 87 and the pushes).
RegisteredAt(d) == CHOOSE i \in 1..Len(Registered(target)) : Registered(target)[i] = d

\* The detectors of the registry that support the platform of the context
\* and whose detect returns a result on it.
Matching ==
    { d \in Range(detectors) :
        /\ SupportsPlatform(d, ctx[1].platform)
        /\ Detect(d, ctx[1], dpkg) # None }

\* d wins over e: a higher priority, or the same and registered earlier.
Before(d, e) ==
    \/ prio[d] > prio[e]
    \/ prio[d] = prio[e] /\ RegisteredAt(d) < RegisteredAt(e)

\* C1: PackageManagerRegistry::detect returns at most one result, and it is
\* the result of the detector of highest priority among those that support
\* the platform and match; with the priorities of two detectors exchanged
\* the same holds of the new order.
C1_FirstMatchWins ==
    /\ pc = "Returned" /\ entry = "registry_detect" =>
         /\ Len(ret[1]) <= 1
         /\ IF Matching = {} THEN ret[1] = None
            ELSE \E w \in Matching :
                    /\ ret[1] = Detect(w, ctx[1], dpkg)
                    /\ \A d \in Matching \ { w } : Before(w, d)
    /\ pc = "Matched" =>
         \E w \in Matching :
            /\ ret[1].value = Detect(w, ctx[1], dpkg)
            /\ \A d \in Matching \ { w } : Before(w, d)
    /\ pc = "Unknown" => Matching = {}

\* Two detectors match, their priorities are exchanged, and the one the
\* code ranks lower is returned.
C1_Witness ==
    /\ pc = "Returned"
    /\ entry = "registry_detect"
    /\ prio # CodePriority(target)
    /\ { "BunGlobalDetector", "NpmGlobalDetector" } \subseteq Matching
    /\ ret[1] # None
    /\ ret[1][1].manager_id = "npm_global"

\* C2: once a detector's detect has returned a result, no later detector is
\* consulted: a detect call that returned a result is the last entry of the
\* log, and nothing behind the detector in turn has been asked.
C2_ShortCircuit ==
    /\ \A k \in 1..Len(log) :
          (log[k][1] = "detect" /\ Detect(log[k][2], ctx[1], dpkg) # None)
              => k = Len(log)
    /\ pc \in { "Returned", "Matched" } /\ entry # "follow_symlinks" /\ ret # None =>
          \A j \in 1..Len(detectors) :
              j > idx => /\ Asked(detectors[j]) \notin Range(log)
                         /\ Tried(detectors[j]) \notin Range(log)

\* A Medium result is returned although a later detector (apt, with an
\* answer from dpkg) would have matched with High.
C2_Witness ==
    /\ pc \in { "Returned", "Matched" }
    /\ entry # "follow_symlinks"
    /\ log # << >>
    /\ Detect(Last(log)[2], ctx[1], dpkg) # None
    /\ Detect(Last(log)[2], ctx[1], dpkg)[1].confidence = "Medium"
    /\ \E j \in 1..Len(detectors) :
          /\ j > idx
          /\ SupportsPlatform(detectors[j], ctx[1].platform)
          /\ \E a \in DpkgAnswers :
                /\ Detect(detectors[j], ctx[1], a) # None
                /\ Detect(detectors[j], ctx[1], a)[1].confidence = "High"

\* C3: a detector whose supports_platform rejects the platform of the
\* context never has its detect invoked, and is never the source of the
\* result.
C3_PlatformFilter ==
    /\ \A k \in 1..Len(log) :
          log[k][1] = "detect" => SupportsPlatform(log[k][2], ctx[1].platform)
    /\ pc = "Returned" /\ entry = "registry_detect" /\ ret[1] # None =>
          \A d \in Range(detectors) :
              ~SupportsPlatform(d, ctx[1].platform) => ret[1][1].manager_id # Id(d)
    /\ pc = "Matched" =>
          \A d \in Range(detectors) :
              ~SupportsPlatform(d, ctx[1].platform) => ret[1].value[1].manager_id # Id(d)

\* A detector that would have matched was asked, rejected the platform and
\* was passed over.
C3_Witness ==
    /\ pc = "Returned"
    /\ entry = "registry_detect"
    /\ \E d \in Range(detectors) :
          /\ ~SupportsPlatform(d, ctx[1].platform)
          /\ Asked(d) \in Range(log)
          /\ Tried(d) \notin Range(log)
          /\ Detect(d, ctx[1], dpkg) # None

\* The command resolves to a path, by the search path itself.
InSearchPath ==
    \E i \in 1..Len(PathDirs) : IsExecutable(fs, PathDirs[i] \o << command >>)

FirstInSearchPath ==
    PathDirs[Min({ i \in 1..Len(PathDirs) :
                     IsExecutable(fs, PathDirs[i] \o << command >>) })]
        \o << command >>

\* fs::symlink_metadata(p).is_symlink()
IsSymlink(f, p) == ReadLink(f, p).ok

Terminal == { "Matched", "Unknown", "ResolutionFailed" }

\* C4: when the command resolves and no applicable detector matches,
\* Detector::detect returns Ok: "unknown", Uncertain, no package name, no
\* version, the resolver's path and the last element of the chain.
C4_UnknownFallback ==
    (pc \in Terminal /\ InSearchPath /\ Matching = {}) =>
        /\ ret # None
        /\ ret[1].ok
        /\ ret[1].value[1].manager_id = "unknown"
        /\ ret[1].value[1].confidence = "Uncertain"
        /\ ret[1].value[1].package_name = None
        /\ ret[1].value[1].version = None
        /\ ret[1].value[1].command_path = FirstInSearchPath
        /\ ret[1].value[1].resolved_path = Last(chain)

\* The fallback is returned for a command that is a symlink.
C4_Witness ==
    /\ pc = "Unknown"
    /\ Len(chain) >= 2
    /\ ret[1].value[1].resolved_path # ret[1].value[1].command_path

\* C5: Detector::detect returns an error exactly when the command resolves
\* to no executable of the search path; the error is CommandNotFound with
\* the command name, no result is produced and no detector is evaluated.
C5_OnlyCommandNotFound ==
    pc \in Terminal =>
        /\ ret # None
        /\ ~ret[1].ok <=> ~InSearchPath
        /\ ~ret[1].ok =>
              /\ ret[1].error = Some(CommandNotFound(command))
              /\ ret[1].value = None
              /\ log = << >>
              /\ ctx = None
        /\ ret[1].ok => ret[1].error = None /\ ret[1].value # None

\* The error is returned for a name whose entries in the search path are
\* all dangling.
C5_Witness ==
    /\ pc = "ResolutionFailed"
    /\ command = "git"
    /\ fs[UsrBin].kind = "link"
    /\ ret[1].error[1].name = "git"

\* The rank of a position of Detector::detect: Start, PathResolved,
\* ChainWalked, ContextBuilt, Evaluating(i), and the terminal states.
Rank ==
    CASE pc = "resolve" -> 0
      [] pc = "walk" -> 1
      [] pc = "context" -> 2
      [] pc = "registry" -> 3
      [] pc = "eval" -> 3 + idx
      [] OTHER -> 5 + Len(detectors)

\* The position has a step to take: each of its branches in the code is an
\* action, and the conditions of the branches leave no case out.
Proceeds ==
    \/ pc \in { "resolve", "context", "registry" }
    \/ pc = "walk" /\ (LoopFollows(fs, current, seen) \/ LoopEnds(fs, current, seen))
    \/ pc = "eval" /\ idx \in 1..(Len(detectors) + 1) /\ ctx # None

\* C6: an invocation of Detector::detect moves forward through its states,
\* Evaluating(i) for strictly increasing i, never back to one it left (the
\* walker's loop stays in PathResolved, each iteration adding one of the
\* finitely many readable paths to `seen`); before a terminal state it
\* always has a step to take and its rank is bounded, so it ends in exactly
\* one terminal state, and once the path has resolved that state is Matched
\* or Unknown, with a DetectionResult.
C6_StateMachine ==
    /\ [][entry = "detect_command" =>
            /\ Rank' >= Rank
            /\ Rank' = Rank =>
                  /\ pc = "walk" /\ pc' = "walk"
                  /\ Cardinality(seen') > Cardinality(seen)
                  /\ \A p \in seen' : Len(p) <= PathMax
            /\ (pc = "eval" /\ pc' = "eval") => idx' = idx + 1
            /\ pc \notin Terminal]_vars
    /\ [](entry = "detect_command" /\ pc \notin Terminal =>
            Proceeds /\ Rank < 5 + Len(detectors))
    /\ [](entry = "detect_command" /\ pc \in Terminal =>
            /\ ret # None
            /\ pc = "ResolutionFailed" <=> command_path = None
            /\ pc \in { "Matched", "Unknown" } <=> ret[1].ok
            /\ ret[1].ok => ret[1].value # None)

\* A match by the third detector or a later one, for a command that is a
\* symlink.
C6_Witness ==
    /\ pc = "Matched"
    /\ idx >= 3
    /\ Len(chain) >= 2

\* C7: the chain follow_symlinks returns has at least one element, its
\* first element is the path given, and it is that path alone when the path
\* is no symlink or does not exist.
C7_ChainStartsAtInput ==
    /\ pc = "Returned" /\ entry = "follow_symlinks" =>
          /\ Len(ret[1]) >= 1
          /\ ret[1][1] = path[1]
          /\ ~IsSymlink(fs, path[1]) => ret[1] = << path[1] >>
    /\ pc \in { "context", "registry", "eval", "Matched", "Unknown" }
          /\ entry = "detect_command" =>
          /\ Len(chain) >= 1
          /\ chain[1] = path[1]
          /\ ~IsSymlink(fs, path[1]) => chain = << path[1] >>

\* The chain of a path that does not exist.
C7_Witness ==
    /\ pc = "Returned"
    /\ entry = "follow_symlinks"
    /\ path = Some(Nowhere)
    /\ ret[1] = << Nowhere >>

\* C8: follow_symlinks terminates, also on a symlink that refers to itself
\* and on symlinks that refer to each other, with absolute and with relative
\* targets: the loop always either goes on or ends, every iteration that
\* stays in it adds to `seen` one of the finitely many paths the system can
\* read, and the chain returned is no longer than `seen` allows.
C8_WalkTerminates ==
    /\ [](pc = "walk" =>
            LoopFollows(fs, current, seen) \/ LoopEnds(fs, current, seen))
    /\ [][pc = "walk" /\ pc' = "walk" =>
            /\ Cardinality(seen') > Cardinality(seen)
            /\ \A p \in seen' : Len(p) <= PathMax /\ IsSymlink(fs, p)]_vars
    /\ [](pc = "Returned" /\ entry = "follow_symlinks" =>
            /\ Len(ret[1]) <= Cardinality(seen) + 1
            /\ \A p \in seen : Len(p) <= PathMax \/ p = current)

\* The walk returned from a cycle entered through a relative target.
C8_Witness ==
    /\ pc = "Returned"
    /\ entry = "follow_symlinks"
    /\ ReadLink(fs, current).ok
    /\ ~IsAbsolute(ReadLink(fs, current).path)
    /\ Len(chain) >= 3

\* The walk stopped because a path already seen was reached again: the
\* path it stopped at is a symlink that can be read.
StoppedOnRepeat ==
    /\ pc = "Returned"
    /\ entry = "follow_symlinks"
    /\ ReadLink(fs, current).ok

NoRepeats(ch) == \A i, j \in 1..Len(ch) : ch[i] = ch[j] => i = j

\* C9: when follow_symlinks stops on a path already seen, no path occurs
\* twice in the chain it returns.
C9_NoPathTwice == StoppedOnRepeat => NoRepeats(ret[1])

\* The path with its "name/.." pairs removed, no symlink looked at.
RECURSIVE Lexical(_, _)
Lexical(done, rest) ==
    IF rest = << >> THEN done
    ELSE IF Head(rest) = ".." /\ Len(done) > 1 /\ Last(done) # ".."
         THEN Lexical(Front(done), Tail(rest))
         ELSE Lexical(Append(done, Head(rest)), Tail(rest))

\* The link target of p as written, joined to the parent of p when relative.
DirectTarget(f, p) ==
    LET t == ReadLink(f, p).path
    IN  IF IsAbsolute(t) \/ Parent(p) = None THEN t ELSE Join(Parent(p)[1], t)

\* C10: every element of the returned chain but the first is the direct
\* link target of the element before it, so every hop is in the chain.
C10_EveryHopInChain ==
    pc = "Returned" /\ entry = "follow_symlinks" =>
        \A i \in 1..(Len(ret[1]) - 1) :
            /\ IsSymlink(fs, ret[1][i])
            /\ ret[1][i + 1] \in { DirectTarget(fs, ret[1][i]),
                                   Lexical(<< >>, DirectTarget(fs, ret[1][i])) }

\* C11: follow_symlinks never fails: when the link of the current path
\* cannot be read it returns the chain found so far, every element but the
\* last a symlink that was read and the last the path the read failed on;
\* Detector::detect leaves the walk for the context with that chain, no
\* error returned, and the registry is run on it.
C11_WalkNeverFails ==
    /\ [][pc = "walk" /\ pc' # "walk" =>
            /\ chain' = chain
            /\ Len(chain) >= 1
            /\ Last(chain) = current
            /\ \A i \in 1..(Len(chain) - 1) : IsSymlink(fs, chain[i])
            /\ entry = "follow_symlinks" => pc' = "Returned" /\ ret' = Some(chain)
            /\ entry = "detect_command" => pc' = "context" /\ ret' = None]_vars
    /\ [](entry = "detect_command" /\ pc \in { "registry", "eval" } =>
            /\ ret = None
            /\ ctx[1].symlink_chain = chain)
    /\ [](entry = "detect_command" /\ pc \in Terminal /\ command_path # None =>
            ret[1].ok /\ log # << >>)

\* Detector::detect evaluates detectors on a chain of two paths whose walk
\* ended on a path with no link to read.
C11_Witness ==
    /\ entry = "detect_command"
    /\ pc = "eval"
    /\ Len(chain) >= 2
    /\ ~ReadLink(fs, current).ok
    /\ ctx[1].symlink_chain = chain

\* C12: in every DetectionContext Detector::detect builds and passes to the
\* registry, symlink_chain is not empty, its first element is command_path
\* (the path the resolver returned), resolved_path is its last element, and
\* when command_path is no symlink the chain is command_path alone.
C12_ContextChain ==
    (entry = "detect_command" /\ ctx # None) =>
        /\ pc \in { "registry", "eval", "Matched", "Unknown" }
        /\ ctx[1].command_path = command_path[1]
        /\ Len(ctx[1].symlink_chain) >= 1
        /\ ctx[1].symlink_chain[1] = ctx[1].command_path
        /\ ctx[1].resolved_path = Last(ctx[1].symlink_chain)
        /\ ~IsSymlink(fs, ctx[1].command_path) =>
              ctx[1].symlink_chain = << ctx[1].command_path >>

\* The registry is handed the context of a command that is a symlink: the
\* resolved path is not the command path.
C12_Witness ==
    /\ entry = "detect_command"
    /\ pc = "registry"
    /\ ctx # None
    /\ IsSymlink(fs, ctx[1].command_path)
    /\ ctx[1].resolved_path # ctx[1].command_path

\* C13: the list PackageManagerRegistry::new builds holds the registered
\* detectors, each once, in order of non-increasing priority, and two
\* detectors of equal priority stand in the order of their registration.
C13_SortedStable ==
    detectors # << >> =>
        /\ Len(detectors) = Len(Registered(target))
        /\ Range(detectors) = Range(Registered(target))
        /\ \A i, j \in 1..Len(detectors) :
              i < j =>
                /\ prio[detectors[i]] >= prio[detectors[j]]
                /\ prio[detectors[i]] = prio[detectors[j]] =>
                      RegisteredAt(detectors[i]) < RegisteredAt(detectors[j])

\* The system detector has the priority of the homebrew detector, and stands
\* right behind it, in front of every detector registered before it.
C13_Witness ==
    /\ entry = "registry_detect"
    /\ target = "linux"
    /\ prio["SystemDetector"] = prio["HomebrewDetector"]
    /\ detectors[1] = "HomebrewDetector"
    /\ detectors[2] = "SystemDetector"
    /\ detectors[3] = "BunGlobalDetector"

\* The detectors of the registry by the kind of their evidence: a query of
\* the system package database, the global-install directories of a language
\* package manager, the bare directories of the operating system.
Verifying == { "AptDetector" }
LanguageManagers == { "NpmGlobalDetector", "BunGlobalDetector" }
CatchAll == { "SystemDetector" }

\* C14: in the order Detector::detect evaluates the registry of the code,
\* every detector that verifies against a package database stands before
\* every language package manager detector, and every language package
\* manager detector before the system detector.
C14_VerifyingFirst ==
    (entry = "detect_command" /\ detectors # << >>) =>
        \A i, j \in 1..Len(detectors) :
            /\ (detectors[i] \in Verifying /\ detectors[j] \in LanguageManagers)
                  => i < j
            /\ (detectors[i] \in LanguageManagers /\ detectors[j] \in CatchAll)
                  => i < j

\* The detector units the files of package_managers/ define.
Units ==
    { "HomebrewDetector", "NpmGlobalDetector", "BunGlobalDetector",
      "YarnGlobalDetector", "PnpmGlobalDetector", "CargoDetector",
      "GemDetector", "GoDetector", "MiseDetector", "NDetector", "NixDetector",
      "PipxDetector", "SnapDetector", "ScoopDetector", "WingetDetector",
      "ChocolateyDetector", "AptDetector", "SystemDetector" }

\* C15: the list PackageManagerRegistry::new builds holds every detector
\* unit of the repository that supports the platform of the build target.
C15_HoldsAllUnits ==
    detectors # << >> =>
        \A d \in Units :
            SupportsPlatform(d, PlatformCurrent(target)) => d \in Range(detectors)

\* The value a registry call returned: Option<DetectionResult>, from
\* PackageManagerRegistry::detect directly or through Detector::detect.
Detected ==
    IF entry = "registry_detect" THEN ret[1] ELSE ret[1].value

\* The registry call has returned, from the registry of the code.
RegistryReturned ==
    /\ \/ pc = "Returned" /\ entry = "registry_detect"
       \/ pc \in { "Matched", "Unknown" }
    /\ prio = CodePriority(target)

\* The places of the chain whose path has the Cellar form.
CellarPlaces(ch) == { k \in 1..Len(ch) : CellarMatches(ch[k]) # {} }

MoreSpecific == Matching \ { "SystemDetector" }

\* C17: on the platform Linux, for a context whose resolved path is under
\* /bin/, /sbin/, /usr/bin/ or /usr/sbin/ and that no other detector of the
\* registry matches (the apt detector's query yielding nothing), the
\* registry of the code returns system, Medium, no package name, no version.
C17_SystemFallthrough ==
    (/\ RegistryReturned
     /\ ctx[1].platform = "Linux"
     /\ UnixSystemDir(ctx[1].resolved_path)
     /\ MoreSpecific = {}) =>
        /\ Detected # None
        /\ Detected[1].manager_id = "system"
        /\ Detected[1].manager_name = "System (OS Standard)"
        /\ Detected[1].confidence = "Medium"
        /\ Detected[1].package_name = None
        /\ Detected[1].version = None
        /\ Last(log) = Tried("SystemDetector")

\* On a Linux build a command of another directory resolves into /usr/bin,
\* dpkg was asked and knew no owner, and the system detector answered.
C17_Witness ==
    /\ pc = "Matched"
    /\ target = "linux"
    /\ ~UnixSystemDir(ctx[1].command_path)
    /\ UnixSystemDir(ctx[1].resolved_path)
    /\ dpkg.s = "exit_failure"
    /\ Tried("AptDetector") \in Range(log)
    /\ Detected[1].manager_id = "system"

\* C18: for the context whose chain is /home/u/.yarn/bin/tsc,
\* /home/u/.config/yarn/global/node_modules/typescript/bin/tsc, the registry
\* of the code returns yarn_global with the package typescript.
C18_YarnGlobal ==
    (RegistryReturned /\ ctx[1].symlink_chain = << YarnBin, YarnModules >>) =>
        /\ Detected # None
        /\ Detected[1].manager_id = "yarn_global"
        /\ Detected[1].package_name = Some("typescript")

\* dpkg was asked and one of its two queries did not succeed: the tool could
\* not be started, or exited unsuccessfully (as `dpkg -S` does for a path
\* no package owns).
QueryFailed ==
    /\ dpkg # Unasked
    /\ dpkg.s # "success" \/ dpkg.q # "success"

\* The place of the apt detector in the registry's list.
AptAt == CHOOSE k \in 1..Len(detectors) : detectors[k] = "AptDetector"

\* C19: when a query of the apt detector could not be started or exited
\* unsuccessfully, the apt detector returns no result: the registry goes on
\* with the detector after it, the apt detector is tried once and no more,
\* no result named apt is returned, and the invocation returns Ok.
C19_FailedQueryIsNoEvidence ==
    QueryFailed =>
        /\ Cardinality({ k \in 1..Len(log) : log[k] = Tried("AptDetector") }) = 1
        /\ pc = "eval" => idx > AptAt
        /\ (\/ pc = "Returned" /\ entry = "registry_detect"
            \/ pc \in { "Matched", "Unknown" }) =>
              \/ Detected = None
              \/ Detected[1].manager_id # "apt"
        /\ (entry = "detect_command" /\ pc \in Terminal) => ret[1].ok

\* The detectors that ask an external tool about the path: the apt detector
\* alone runs a subprocess (query_dpkg); the others look at paths only.
Querying == { "AptDetector" }

\* C20: a returned result has confidence High only if its detector asked an
\* external tool and the queries succeeded; a result of a detector that
\* looks at paths alone never has confidence High.
C20_HighIsVerified ==
    (/\ \/ pc = "Returned" /\ entry = "registry_detect"
        \/ pc \in { "Matched", "Unknown" }
     /\ Detected # None
     /\ Detected[1].confidence = "High") =>
        /\ \E d \in Querying : Detected[1].manager_id = Id(d)
        /\ dpkg.s = "success"
        /\ dpkg.q = "success"

\* C21: in every result Detector::detect returns, the confidence is
\* Uncertain exactly when the manager_id is "unknown": a result of a
\* detector (through the registry) is never Uncertain and never "unknown",
\* and the fallback is always Uncertain.
C21_UncertainIffUnknown ==
    /\ (entry = "detect_command" /\ pc \in { "Matched", "Unknown" }) =>
          /\ ret[1].ok
          /\ ret[1].value[1].confidence = "Uncertain"
                <=> ret[1].value[1].manager_id = "unknown"
          /\ pc = "Matched" => ret[1].value[1].confidence # "Uncertain"
          /\ pc = "Unknown" => ret[1].value[1].confidence = "Uncertain"
    /\ (entry = "registry_detect" /\ pc = "Returned" /\ ret[1] # None) =>
          /\ ret[1][1].confidence # "Uncertain"
          /\ ret[1][1].manager_id # "unknown"

\* Detector::detect returned the fallback for a command that resolved.
C21_Witness ==
    /\ entry = "detect_command"
    /\ pc = "Unknown"
    /\ ret[1].value[1].manager_id = "unknown"
    /\ ret[1].value[1].confidence = "Uncertain"

\* The segments that mark infrastructure, not a package.
Markers == { "bin", ".bin", ".pnpm" }

\* The detectors that take the package name from the segments of a path.
NameExtractors ==
    { "NpmGlobalDetector", "YarnGlobalDetector", "PnpmGlobalDetector",
      "SnapDetector", "MiseDetector", "PipxDetector" }

\* C22: the package name a detector takes from the segments of a path is
\* never a marker segment ("bin", ".bin", ".pnpm"): .../node_modules/.bin/
\* eslint does not give the package ".bin".
C22_NoMarkerAsName ==
    (/\ pc = "UnitReturned"
     /\ detectors[1] \in NameExtractors
     /\ ret[1] # None) =>
        \A m \in Markers : ret[1][1].package_name # Some(m)

\* C23: for a path /nix/store/{32-character hash}-{name}-{version}/...
\* built from a name and a version, extract_nix_package_name returns the
\* name and extract_nix_version the version; for a store entry of a name
\* alone (no dash-and-digit in it) the name is returned and no version.
C23_NixRoundTrip ==
    pc = "NixReturned" =>
        /\ Len(chain) = 2 =>
              /\ ret[1].package_name = Some(chain[1])
              /\ ret[1].version = Some(chain[2])
        /\ (Len(chain) = 1 /\ ~NixLooksVersioned(chain[1])) =>
              /\ ret[1].package_name = Some(chain[1])
              /\ ret[1].version = None

\* The extractors of the node_modules grammar, by detector.
NodeModulesExtractors ==
    { "NpmGlobalDetector", "YarnGlobalDetector", "PnpmGlobalDetector" }

ExtractName(d, p) ==
    CASE d = "NpmGlobalDetector" -> ExtractNpmPackageName(p)
      [] d = "YarnGlobalDetector" -> ExtractYarnPackageName(p)
      [] d = "PnpmGlobalDetector" -> ExtractPnpmPackageName(p)

\* What the node_modules grammar gives for a path: the segment after the
\* first node_modules, joined with the next one when it starts with '@'.
FollowsNodeModules(p) ==
    IF OccurrencesAny(p, << "node_modules" >>) = {} THEN << >>
    ELSE SubSeq(p, Min(OccurrencesAny(p, << "node_modules" >>)) + 1, Len(p))

\* C24: for the extractors of npm, yarn and pnpm, when the segment after
\* the first node_modules starts with '@' the name is "@scope/name" with
\* the next segment and never the scope alone; otherwise the name is that
\* one segment; the name is absent when nothing follows node_modules.
C24_ScopedAsOneUnit ==
    (pc = "UnitReturned" /\ detectors[1] \in NodeModulesExtractors) =>
        \A k \in 1..Len(ctx[1].symlink_chain) :
            LET p == ctx[1].symlink_chain[k]
                rest == FollowsNodeModules(p)
                name == ExtractName(detectors[1], p)
            IN  /\ (rest = << >> \/ rest[1] = "") => name = None
                /\ (rest # << >> /\ rest[1] \in Scopes) =>
                      /\ name # Some(rest[1])
                      /\ (Len(rest) >= 2 /\ rest[2] # "") =>
                            name = Some(rest[1] \o "/" \o rest[2])
                /\ (rest # << >> /\ rest[1] \notin Scopes /\ rest[1] # "") =>
                      name = Some(rest[1])

\* C25: whenever the apt detector returns a result, both queries succeeded:
\* the ownership query named a package and the version query for it
\* succeeded, and the result's package_name and version are not empty.
C25_AptResultVerified ==
    (/\ \/ pc = "Returned" /\ entry = "registry_detect"
        \/ pc \in { "Matched", "Unknown" }
     /\ Detected # None
     /\ Detected[1].manager_id = "apt") =>
        /\ dpkg.s = "success"
        /\ dpkg.q = "success"
        /\ Detected[1].package_name \notin { None, Some("") }
        /\ Detected[1].version \notin { None, Some("") }

\* The path is {dir}/... for one of the directories: something follows.
Under(p, dirs) ==
    \E d \in dirs : Len(p) > Len(d) /\ SubSeq(p, 1, Len(d)) = d

\* C26: the system detector returns a result exactly when the resolved
\* path of the context, whatever the other paths of the chain, is under
\* /bin/, /sbin/, /usr/bin/, /usr/sbin/ on Linux, under one of those or
\* /System/ on macOS, or holds \Windows\System32\ or \Windows\SysWOW64\
\* on Windows; /usr/local/bin/... is not system.
C26_SystemIffResolved ==
    (pc = "UnitReturned" /\ detectors[1] = "SystemDetector") =>
        LET r == ctx[1].resolved_path
            unix == { << "/", "bin" >>, << "/", "sbin" >>, << "/", "usr", "bin" >>,
                      << "/", "usr", "sbin" >> }
            system ==
                CASE ctx[1].platform = "Linux" -> Under(r, unix)
                  [] ctx[1].platform = "MacOS" ->
                       Under(r, unix \cup { << "/", "System" >> })
                  [] ctx[1].platform = "Windows" ->
                       \E k \in 2..(Len(r) - 2) :
                           /\ r[1] = "C:"
                           /\ r[k] = "Windows"
                           /\ r[k + 1] \in { "System32", "SysWOW64" }
        IN  /\ ret[1] # None <=> system
            /\ ret[1] # None =>
                  /\ ret[1][1].manager_id = "system"
                  /\ ret[1][1].package_name = None
                  /\ ret[1][1].version = None
                  /\ ret[1][1].confidence = "Medium"
            /\ r = UsrLocalBin => ret[1] = None

\* On Linux a command in /usr/bin resolves into a Cellar: the first path of
\* the chain is a system path, the resolved one is not, and no result comes.
C26_Witness ==
    /\ pc = "UnitReturned"
    /\ detectors[1] = "SystemDetector"
    /\ ctx[1].platform = "Linux"
    /\ ctx[1].symlink_chain = << UsrBin, Cellar >>
    /\ ret[1] = None

\* The path has one of Homebrew's forms: a Cellar path or a path under a
\* Homebrew prefix.
HomebrewPath(p) ==
    \/ CellarMatches(p) # {}
    \/ Contains(p, "/", << "opt", "homebrew" >>)
    \/ Contains(p, "/", << "usr", "local", "Homebrew" >>)
    \/ Contains(p, "/", << "home", "linuxbrew", ".linuxbrew" >>)

\* The path holds /.bun/bin/ or /.bun/install/global/.
BunPath(p) ==
    \/ Contains(p, "/", << ".bun", "bin" >>)
    \/ Contains(p, "/", << ".bun", "install", "global" >>)

\* C27: for a context with no Homebrew path in the chain and some path
\* holding /.bun/bin/ or /.bun/install/global/ (.../node_modules/... too),
\* the registry of the code returns bun_global with the command name as the
\* package, and not npm_global.
C27_BunBeforeNpm ==
    (/\ RegistryReturned
     /\ \A k \in 1..Len(ctx[1].symlink_chain) : ~HomebrewPath(ctx[1].symlink_chain[k])
     /\ \E k \in 1..Len(ctx[1].symlink_chain) : BunPath(ctx[1].symlink_chain[k])) =>
        /\ Detected # None
        /\ Detected[1].manager_id = "bun_global"
        /\ Detected[1].manager_id # "npm_global"
        /\ Detected[1].package_name = Some(ctx[1].command_name)
        /\ Tried("NpmGlobalDetector") \notin Range(log)

\* The chain holds a path under .bun/install/global/node_modules, which the
\* npm detector matches too, and bun_global is returned.
C27_Witness ==
    /\ RegistryReturned
    /\ \E k \in 1..Len(ctx[1].symlink_chain) : ctx[1].symlink_chain[k] = BunModules
    /\ NpmGlobalDetect(ctx[1]) # None
    /\ Detected[1].manager_id = "bun_global"

\* The path lies under a Homebrew prefix.
UnderHomebrewPrefix(p) ==
    \/ Contains(p, "/", << "opt", "homebrew" >>)
    \/ Contains(p, "/", << "usr", "local", "Homebrew" >>)
    \/ Contains(p, "/", << "home", "linuxbrew", ".linuxbrew" >>)

\* C28: on macOS or Linux, when some path of the chain (the resolved path
\* or any other) lies under a Homebrew prefix and no path of the chain has
\* the Cellar form, the Homebrew detector returns homebrew, Medium, with no
\* package name and no version.
C28_HomebrewPrefixAnywhere ==
    (/\ pc = "UnitReturned"
     /\ detectors[1] = "HomebrewDetector"
     /\ ctx[1].platform \in { "MacOS", "Linux" }
     /\ \E k \in 1..Len(ctx[1].symlink_chain) :
            UnderHomebrewPrefix(ctx[1].symlink_chain[k])
     /\ CellarPlaces(ctx[1].symlink_chain) = {}) =>
        /\ ret[1] # None
        /\ ret[1][1].manager_id = "homebrew"
        /\ ret[1][1].confidence = "Medium"
        /\ ret[1][1].package_name = None
        /\ ret[1][1].version = None

\* The path lies directly in a directory {PREFIX}/bin whose
\* {PREFIX}/n/versions/node is a directory.
InNBin(f, p) ==
    /\ Len(p) >= 3
    /\ p[Len(p) - 1] = "bin"
    /\ IsDirIn(f, SubSeq(p, 1, Len(p) - 2) \o << "n", "versions", "node" >>)

\* C29: for a command whose base name is node, npm, npx or corepack the n
\* detector returns a result whenever command_path or resolved_path lies
\* directly in a {PREFIX}/bin whose {PREFIX}/n/versions/node is a
\* directory (command_path's prefix first, resolved_path's as fallback),
\* and only then; for any other command name it returns no result.
C29_NPrefixEither ==
    pc = "NReturned" =>
        LET base == CommandBase(ctx[1].command_name)
            either == \/ InNBin(fs, ctx[1].command_path)
                      \/ InNBin(fs, ctx[1].resolved_path)
        IN  /\ base \notin NTargetCommands => ret[1] = None
            /\ base \in NTargetCommands => (ret[1] # None <=> either)

\* A result has been returned for the context: by the detector in turn, or
\* the fallback of Detector::detect.
ResultReturned ==
    /\ \/ pc = "Returned" /\ entry = "registry_detect"
       \/ pc \in { "Matched", "Unknown" }
    /\ Detected # None

\* C30: every result returned for a context carries the context's
\* command_path and resolved_path; a detector's result carries the id() and
\* name() of that detector, the fallback "unknown" and "Unknown"; and no
\* step of the detection changes the context or the registry's list.
C30_ResultCarriesContext ==
    /\ [](ResultReturned =>
            /\ Detected[1].command_path = ctx[1].command_path
            /\ Detected[1].resolved_path = ctx[1].resolved_path
            /\ IF pc = "Unknown"
               THEN /\ Detected[1].manager_id = "unknown"
                    /\ Detected[1].manager_name = "Unknown"
               ELSE /\ Detected[1].manager_id = Id(detectors[idx])
                    /\ Detected[1].manager_name = Name(detectors[idx]))
    /\ [][pc = "eval" => (ctx' = ctx /\ detectors' = detectors)]_vars

\* detect_command returned a detector's result for a command that is a
\* symlink: the two paths of the context differ and the result has both.
C30_Witness ==
    /\ pc = "Matched"
    /\ ctx[1].command_path # ctx[1].resolved_path
    /\ Detected[1].command_path = ctx[1].command_path
    /\ Detected[1].resolved_path = ctx[1].resolved_path
    /\ Detected[1].manager_id = Id(detectors[idx])
====
